---- MODULE Spec2Model ----
(***************************************************************************)
(* Code-generation backend of the qCore assembler: the first pass of main  *)
(* (symbol collection and address layout), Encoder::encode (second pass),  *)
(* the two decoders and writeMIF.                                          *)
(*                                                                         *)
(* Texts (operand texts, label names, directive values) are sequences of   *)
(* one-character strings, so that prefix stripping and number parsing are  *)
(* computed character by character as the code does.  Mnemonics and        *)
(* directive names are only ever compared for equality and are strings.    *)
(***************************************************************************)
EXTENDS Integers, Sequences, FiniteSets, TLC

VARIABLES
    ast,                 \* the statement sequence (g_ast), read-only
    pc,                  \* position in main: "pass1", "pass2", "write", "done", "error"
    idx,                 \* index of the next statement of the running pass (1-based)
    currentAddress,      \* main's first-pass address counter
    labels,              \* SymbolTable: label name -> address
    defines,             \* SymbolTable: define name -> value
    isData,              \* classification vector (TRUE = data)
    machineCode,         \* Encoder::machineCode
    enc_currentAddress,  \* Encoder::currentAddress
    err,                 \* the exception that reached main's catch, or NoError
    mif,                 \* what writeMIF wrote, or NoFile
    layoutAddr,          \* history: first-pass address at each statement visited
    emitAt               \* history: machineCode.size() and the encoder's currentAddress
                         \* at each statement encode visited

vars == <<ast, pc, idx, currentAddress, labels, defines, isData, machineCode,
          enc_currentAddress, err, mif, layoutAddr, emitAt>>

-----------------------------------------------------------------------------
(* Bounds of the model *)

\* longest statement sequence of the pipeline specification
MaxStmts == 3

-----------------------------------------------------------------------------
(* Integer helpers: C++ integer operators on mathematical integers *)

RECURSIVE Pow2(_)
Pow2(n) == IF n <= 0 THEN 1 ELSE 2 * Pow2(n - 1)

\* x << n
Shl(x, n) == x * Pow2(n)

\* x >> n on a signed value (arithmetic shift: floor division)
Shr(x, n) == x \div Pow2(n)

\* x & (2^n - 1) on a two's-complement value
AndMask(x, n) == x % Pow2(n)

\* bit n of x
Bit(x, n) == (x \div Pow2(n)) % 2

\* a | b for non-negative a, b
RECURSIVE BitOr(_, _)
BitOr(a, b) ==
    IF a = 0 THEN b
    ELSE IF b = 0 THEN a
    ELSE (IF (a % 2 = 1) \/ (b % 2 = 1) THEN 1 ELSE 0) + 2 * BitOr(a \div 2, b \div 2)

\* static_cast<uint16_t>(x): what a vector<uint16_t> element keeps of x
U16(x) == x % 65536

\* the value of a uint16_t bit pattern converted to int16_t
S16(x) == IF U16(x) >= 32768 THEN U16(x) - 65536 ELSE U16(x)

-----------------------------------------------------------------------------
(* Texts *)

Tail2(s) == SubSeq(s, 3, Len(s))

StartsWith(s, p) == Len(s) >= Len(p) /\ SubSeq(s, 1, Len(p)) = p

DigitChars == <<"0", "1", "2", "3", "4", "5", "6", "7", "8", "9",
                "a", "b", "c", "d", "e", "f">>

UpperHex == <<"A", "B", "C", "D", "E", "F">>

\* value of a character as a digit, or 99 when it is none
DigitVal(c) ==
    IF \E i \in 1..16 : DigitChars[i] = c
    THEN (CHOOSE i \in 1..16 : DigitChars[i] = c) - 1
    ELSE IF \E i \in 1..6 : UpperHex[i] = c
    THEN (CHOOSE i \in 1..6 : UpperHex[i] = c) + 9
    ELSE 99

IsDigitIn(c, base) == DigitVal(c) < base

\* number of leading characters of s that are digits of the base
RECURSIVE DigitRun(_, _)
DigitRun(s, base) ==
    IF s = <<>> \/ ~IsDigitIn(Head(s), base) THEN 0
    ELSE 1 + DigitRun(Tail(s), base)

\* value of a digit string, most significant digit first
RECURSIVE DigitsValue(_, _)
DigitsValue(s, base) ==
    IF s = <<>> THEN 0
    ELSE DigitsValue(SubSeq(s, 1, Len(s) - 1), base) * base + DigitVal(s[Len(s)])

RECURSIVE SkipSpace(_)
SkipSpace(s) == IF s # <<>> /\ Head(s) = " " THEN SkipSpace(Tail(s)) ELSE s

IsHexPrefix(s) ==
    /\ Len(s) >= 3
    /\ s[1] = "0"
    /\ s[2] \in {"x", "X"}
    /\ IsDigitIn(s[3], 16)

\* std::stoll(s, nullptr, base) for base 0, 2 or 16: leading blanks, an
\* optional sign, the 0x prefix (base 0 and 16) or a leading 0 for octal
\* (base 0), then the longest run of digits; trailing characters are ignored;
\* no digit at all throws std::invalid_argument.
Stoll(s, base) ==
    LET t    == SkipSpace(s)
        neg  == t # <<>> /\ Head(t) = "-"
        u    == IF t # <<>> /\ Head(t) \in {"-", "+"} THEN Tail(t) ELSE t
        hex  == base \in {0, 16} /\ IsHexPrefix(u)
        b    == IF hex THEN 16
                ELSE IF base # 0 THEN base
                ELSE IF u # <<>> /\ Head(u) = "0" THEN 8
                ELSE 10
        body == IF hex THEN Tail2(u) ELSE u
        n    == DigitRun(body, b)
        mag  == DigitsValue(SubSeq(body, 1, n), b)
    IN  IF n = 0
        THEN [ok |-> FALSE, val |-> 0, err |-> "stoll"]
        ELSE [ok |-> TRUE, val |-> IF neg THEN 0 - mag ELSE mag, err |-> ""]

\* the parseNumber lambda of main
parseNumber(valStr) ==
    IF Len(valStr) >= 2 /\ SubSeq(valStr, 1, 2) \in {<<"0", "b">>, <<"0", "B">>}
    THEN Stoll(Tail2(valStr), 2)
    ELSE IF Len(valStr) >= 2 /\ SubSeq(valStr, 1, 2) \in {<<"0", "x">>, <<"0", "X">>}
    THEN Stoll(Tail2(valStr), 16)
    ELSE Stoll(valStr, 0)

-----------------------------------------------------------------------------
(* InstructionDef.h: the instruction, register and directive tables *)

Def(m, f, opR, opI, bits, extra, size, expand) ==
    [mnemonic |-> m, format |-> f, opcodeReg |-> opR, opcodeImm |-> opI,
     immBits |-> bits, extraData |-> extra, baseSize |-> size, canExpand |-> expand]

getInstructionTable ==
    << Def("mv",   "REG_IMM_OR_REG", \H0000, \H1000, 9, 0, 1, TRUE),
       Def("mvt",  "REG_IMM",        \H3000, \H3000, 8, 0, 1, FALSE),
       Def("add",  "REG_IMM_OR_REG", \H4000, \H5000, 9, 0, 1, TRUE),
       Def("sub",  "REG_IMM_OR_REG", \H6000, \H7000, 9, 0, 1, TRUE),
       Def("and",  "REG_IMM_OR_REG", \HC000, \HD000, 9, 0, 1, TRUE),
       Def("cmp",  "REG_IMM_OR_REG", \HE000, \HF000, 9, 0, 1, FALSE),
       Def("ld",   "REG_MEM",        \H8000, \H8000, 0, 0, 1, FALSE),
       Def("st",   "REG_MEM",        \HA000, \HA000, 0, 0, 1, FALSE),
       Def("push", "REG_ONLY",       \HB000, \HB000, 0, 5, 1, FALSE),
       Def("pop",  "REG_ONLY",       \H9000, \H9000, 0, 5, 1, FALSE),
       Def("lsl",  "SHIFT",          \HE000, \HE000, 4, 0, 1, FALSE),
       Def("lsr",  "SHIFT",          \HE000, \HE000, 4, 1, 1, FALSE),
       Def("asr",  "SHIFT",          \HE000, \HE000, 4, 2, 1, FALSE),
       Def("ror",  "SHIFT",          \HE000, \HE000, 4, 3, 1, FALSE),
       Def("b",    "BRANCH",         \H2000, \H2000, 9, 0, 1, FALSE),
       Def("beq",  "BRANCH",         \H2000, \H2000, 9, 1, 1, FALSE),
       Def("bne",  "BRANCH",         \H2000, \H2000, 9, 2, 1, FALSE),
       Def("bcc",  "BRANCH",         \H2000, \H2000, 9, 3, 1, FALSE),
       Def("bcs",  "BRANCH",         \H2000, \H2000, 9, 4, 1, FALSE),
       Def("bpl",  "BRANCH",         \H2000, \H2000, 9, 5, 1, FALSE),
       Def("bmi",  "BRANCH",         \H2000, \H2000, 9, 6, 1, FALSE),
       Def("bl",   "BRANCH",         \H2000, \H2000, 9, 7, 1, FALSE),
       Def("halt", "NO_OPERAND",     \HE1F0, \HE1F0, 0, 0, 1, FALSE) >>

Mnemonics == {getInstructionTable[i].mnemonic : i \in DOMAIN getInstructionTable}

isValidInstruction(mnemonic) == mnemonic \in Mnemonics

\* the descriptor of a mnemonic; the code returns nullptr for an unknown one,
\* callers test isValidInstruction first
getInstructionDef(mnemonic) ==
    getInstructionTable[CHOOSE i \in DOMAIN getInstructionTable :
                            getInstructionTable[i].mnemonic = mnemonic]

getRegisterTable ==
    << [name |-> <<"r", "0">>, number |-> 0],
       [name |-> <<"r", "1">>, number |-> 1],
       [name |-> <<"r", "2">>, number |-> 2],
       [name |-> <<"r", "3">>, number |-> 3],
       [name |-> <<"r", "4">>, number |-> 4],
       [name |-> <<"r", "5">>, number |-> 5],
       [name |-> <<"r", "6">>, number |-> 6],
       [name |-> <<"r", "7">>, number |-> 7],
       [name |-> <<"s", "p">>, number |-> 5],
       [name |-> <<"l", "r">>, number |-> 6],
       [name |-> <<"p", "c">>, number |-> 7] >>

isValidRegister(reg) == \E i \in DOMAIN getRegisterTable : getRegisterTable[i].name = reg

\* names[] of getRegisterName, indexed by register number
getRegisterName(regNum) ==
    << <<"r", "0">>, <<"r", "1">>, <<"r", "2">>, <<"r", "3">>, <<"r", "4">>,
       <<"s", "p">>, <<"l", "r">>, <<"p", "c">> >>[regNum + 1]

\* result of an operation that may throw
Ok(v) == [ok |-> TRUE, val |-> v, err |-> ""]

\* what an encode function has done to machineCode and currentAddress by the
\* time it returns or an exception leaves it
Pushed(words, adv) == [words |-> words, adv |-> adv]

\* an exception thrown before the function has pushed anything: in every encode
\* function the throw statements, and the calls that throw, precede push_back
Throw(e) == [ok |-> FALSE, val |-> Pushed(<<>>, 0), err |-> e]

\* the rest F of a function body after a call that returned r: the exception
\* of the call propagates, otherwise F goes on with the value
Bind(r, F(_)) == IF r.ok THEN F(r.val) ELSE r

\* Encoder::parseRegister
parseRegister(reg) ==
    IF isValidRegister(reg)
    THEN Ok(getRegisterTable[CHOOSE i \in DOMAIN getRegisterTable :
                                 getRegisterTable[i].name = reg].number)
    ELSE Throw("InvalidRegisterName")

-----------------------------------------------------------------------------
(* SymbolTable: label name -> address, define name -> value *)

EmptyTable == [n \in {} |-> 0]

hasLabel(lbls, name) == name \in DOMAIN lbls

hasDefine(defs, name) == name \in DOMAIN defs

addLabel(lbls, name, address) ==
    [n \in DOMAIN lbls \cup {name} |-> IF n = name THEN address ELSE lbls[n]]

addDefine(defs, name, value) ==
    [n \in DOMAIN defs \cup {name} |-> IF n = name THEN value ELSE defs[n]]

getLabelAddress(lbls, name) ==
    IF hasLabel(lbls, name) THEN Ok(lbls[name]) ELSE Throw("UndefinedSymbol")

getDefineValue(defs, name) ==
    IF hasDefine(defs, name) THEN Ok(defs[name]) ELSE Throw("UndefinedSymbol")

-----------------------------------------------------------------------------
(* InstructionEncoder.cpp *)

\* faulty variant: a negative value stored as its magnitude
encodeImmediate_M(value, bits) ==
    IF value > Pow2(bits - 1) - 1 \/ value < 0 - Pow2(bits - 1)
    THEN Throw("ImmediateOutOfRange")
    ELSE Ok(U16(AndMask(IF value < 0 THEN 0 - value ELSE value, bits)))

\* Encoder::encodeImmediate
encodeImmediate(value, bits) ==
    IF value > Pow2(bits - 1) - 1 \/ value < 0 - Pow2(bits - 1)
    THEN Throw("ImmediateOutOfRange")
    ELSE Ok(U16(AndMask(IF value < 0 THEN value + Pow2(bits) ELSE value, bits)))

StripPrefix(value) ==
    IF value # <<>> /\ Head(value) \in {"#", "="} THEN Tail(value) ELSE value

\* the literal branch of parseImmediateOrSymbol
ParseLiteral(numStr) ==
    IF Len(numStr) >= 2 /\ SubSeq(numStr, 1, 2) \in {<<"0", "x">>, <<"0", "X">>}
    THEN Stoll(Tail2(numStr), 16)
    ELSE IF Len(numStr) >= 2 /\ SubSeq(numStr, 1, 2) \in {<<"0", "b">>, <<"0", "B">>}
    THEN Stoll(Tail2(numStr), 2)
    ELSE Stoll(numStr, 0)

\* parseImmediateOrSymbol after the test of the unstripped text
ResolveStripped(numStr, lbls, defs) ==
    IF hasDefine(defs, numStr) THEN getDefineValue(defs, numStr)
    ELSE IF hasLabel(lbls, numStr) THEN getLabelAddress(lbls, numStr)
    ELSE ParseLiteral(numStr)

\* every exception inside parseImmediateOrSymbol is rethrown as
\* "Failed to parse immediate value"
Rethrow(r, e) == IF r.ok THEN r ELSE Throw(e)

\* Encoder::parseImmediateOrSymbol
parseImmediateOrSymbol(value, lbls, defs) ==
    IF hasDefine(defs, value) THEN getDefineValue(defs, value)
    ELSE Rethrow(ResolveStripped(StripPrefix(value), lbls, defs), "UnresolvableOperand")

\* what an encode function did when it did not throw: the words it pushed and
\* how far it advanced currentAddress
Emit(words, adv) == Ok(Pushed(words, adv))

\* opcode | (rX << 9) | low, stored in a uint16_t element
Word(opcode, rX, low) == U16(BitOr(BitOr(opcode, Shl(rX, 9)), low))

\* faulty variant: the word pushed without the increment of currentAddress
encodeRegReg_M(def, rX, rY) == Emit(<<Word(def.opcodeReg, rX, rY)>>, 0)

\* Encoder::encodeRegReg
encodeRegReg(def, rX, rY) == Emit(<<Word(def.opcodeReg, rX, rY)>>, 1)

\* Encoder::encodeRegImm
encodeRegImm(def, rX, imm) ==
    Bind(encodeImmediate(imm, def.immBits),
         LAMBDA e : Emit(<<Word(def.opcodeImm, rX, e)>>, 1))

\* the resolution of a =label operand in encodeRegImmOrReg and encodeLabelLoad:
\* label first, then define, then parseImmediateOrSymbol
LabelImmediateValue(operand2, lbls, defs) ==
    IF hasLabel(lbls, operand2) THEN getLabelAddress(lbls, operand2)
    ELSE IF hasDefine(defs, operand2) THEN getDefineValue(defs, operand2)
    ELSE parseImmediateOrSymbol(operand2, lbls, defs)

\* faulty variant: the high byte taken without the shift
HighByte_M(value) == AndMask(value, 8)

\* the high byte pushed with the MVT word: (value >> 8) & 0xFF
HighByte(value) == AndMask(Shr(value, 8), 8)

\* the low byte pushed with the second word: value & 0xFF
LowByte(value) == AndMask(value, 8)

\* faulty variant: the second word built on the register opcode
SecondOpcode_M(def) ==
    IF def.mnemonic = "mv" THEN getInstructionDef("add").opcodeReg ELSE def.opcodeReg

\* the opcode of the second word of a =label expansion in encodeRegImmOrReg
SecondOpcode(def) ==
    IF def.mnemonic = "mv" THEN getInstructionDef("add").opcodeImm ELSE def.opcodeImm

\* the two pushes of a =label expansion
LabelImmediateWords(def, rX, value) ==
    << Word(getInstructionDef("mvt").opcodeImm, rX, HighByte(value)),
       Word(SecondOpcode(def), rX, LowByte(value)) >>

\* the #value test of encodeRegImmOrReg
FitsImmediate(value, bits) == ~(value > Pow2(bits - 1) - 1 \/ value < 0 - Pow2(bits - 1))

\* the #value operand of encodeRegImmOrReg
ImmediateValue(operand2, lbls, defs) ==
    IF hasDefine(defs, operand2) THEN getDefineValue(defs, operand2)
    ELSE parseImmediateOrSymbol(operand2, lbls, defs)

\* faulty variant: the value of a =label operand is checked against 16 bits
\* between the two pushes
encodeRegImmOrReg_M(def, instr, rX, lbls, defs) ==
    IF instr.isLabelImmediate
    THEN Bind(LabelImmediateValue(instr.operand2, lbls, defs),
              LAMBDA value :
                  IF value \in 0..65535
                  THEN Emit(LabelImmediateWords(def, rX, value), 2)
                  ELSE [ok  |-> FALSE,
                        val |-> Pushed(<<LabelImmediateWords(def, rX, value)[1]>>, 0),
                        err |-> "ImmediateOutOfRange"])
    ELSE IF instr.isImmediate
    THEN Bind(ImmediateValue(instr.operand2, lbls, defs),
              LAMBDA value : IF FitsImmediate(value, def.immBits)
                             THEN encodeRegImm(def, rX, value)
                             ELSE Throw("ImmediateOutOfRange"))
    ELSE Bind(parseRegister(instr.operand2), LAMBDA rY : encodeRegReg(def, rX, rY))

\* Encoder::encodeRegImmOrReg
encodeRegImmOrReg(def, instr, rX, lbls, defs) ==
    IF instr.isLabelImmediate
    THEN Bind(LabelImmediateValue(instr.operand2, lbls, defs),
              LAMBDA value : Emit(LabelImmediateWords(def, rX, value), 2))
    ELSE IF instr.isImmediate
    THEN Bind(ImmediateValue(instr.operand2, lbls, defs),
              LAMBDA value : IF FitsImmediate(value, def.immBits)
                             THEN encodeRegImm(def, rX, value)
                             ELSE Throw("ImmediateOutOfRange"))
    ELSE Bind(parseRegister(instr.operand2), LAMBDA rY : encodeRegReg(def, rX, rY))

\* faulty variant: the offset taken from the branch itself, not from the word after it
BranchOffset_M(targetAddr, addr) == targetAddr - addr

\* offset = targetAddr - (currentAddress + 1)
BranchOffset(targetAddr, addr) == targetAddr - (addr + 1)

\* the branch word: opcodeReg | (extraData << 9) | encoded offset
BranchWord(def, e) == U16(BitOr(BitOr(def.opcodeReg, Shl(def.extraData, 9)), e))

\* encodeBranch from the range test on
encodeOffset(def, offset) ==
    IF offset > 255 \/ offset < -256
    THEN Throw("BranchOffsetOutOfRange")
    ELSE Bind(encodeImmediate(offset, def.immBits),
              LAMBDA e : Emit(<<BranchWord(def, e)>>, 1))

\* Encoder::encodeBranch
encodeBranch(def, instr, addr, lbls) ==
    Bind(getLabelAddress(lbls, instr.operand1),
         LAMBDA targetAddr : encodeOffset(def, BranchOffset(targetAddr, addr)))

\* Encoder::encodeRegOnly
encodeRegOnly(def, rX) == Emit(<<Word(def.opcodeReg, rX, def.extraData)>>, 1)

\* Encoder::encodeRegMem
encodeRegMem(def, rX, rY) == Emit(<<Word(def.opcodeReg, rX, rY)>>, 1)

\* faulty variant: the shift kind placed one bit too low
ShiftBase_M(def, rX) ==
    BitOr(BitOr(Word(def.opcodeReg, rX, 0), Shl(2, 7)), Shl(def.extraData, 4))

\* encoded of encodeShift: opcodeReg | (rX << 9) | (0b10 << 7) | (shiftType << 5)
ShiftBase(def, rX) ==
    BitOr(BitOr(Word(def.opcodeReg, rX, 0), Shl(2, 7)), Shl(def.extraData, 5))

\* Encoder::encodeShift
encodeShift(def, instr, rX, lbls, defs) ==
    IF instr.isImmediate
    THEN Bind(parseImmediateOrSymbol(instr.operand2, lbls, defs),
              LAMBDA imm :
                  IF imm > 15 \/ imm < 0 THEN Throw("ShiftAmountOutOfRange")
                  ELSE Emit(<<U16(BitOr(BitOr(ShiftBase(def, rX), Shl(1, 7)),
                                        AndMask(imm, 4)))>>, 1))
    ELSE Bind(parseRegister(instr.operand2),
              LAMBDA rY : Emit(<<U16(BitOr(ShiftBase(def, rX), rY))>>, 1))

\* Encoder::encodeLabelLoad
encodeLabelLoad(instr, rX, lbls, defs) ==
    Bind(LabelImmediateValue(instr.operand2, lbls, defs),
         LAMBDA value : Emit(LabelImmediateWords(getInstructionDef("mv"), rX, value), 2))

\* the switch of encodeInstruction
encodeFormat(def, instr, rX, addr, lbls, defs) ==
    CASE def.format = "REG_REG" ->
            Bind(parseRegister(instr.operand2), LAMBDA rY : encodeRegReg(def, rX, rY))
      [] def.format = "REG_IMM" ->
            Bind(parseImmediateOrSymbol(instr.operand2, lbls, defs),
                 LAMBDA imm : encodeRegImm(def, rX, imm))
      [] def.format = "REG_IMM_OR_REG" -> encodeRegImmOrReg(def, instr, rX, lbls, defs)
      [] def.format = "BRANCH" -> encodeBranch(def, instr, addr, lbls)
      [] def.format = "REG_ONLY" -> encodeRegOnly(def, rX)
      [] def.format = "REG_MEM" ->
            Bind(parseRegister(instr.operand2), LAMBDA rY : encodeRegMem(def, rX, rY))
      [] def.format = "SHIFT" -> encodeShift(def, instr, rX, lbls, defs)
      [] def.format = "LABEL_LOAD" -> encodeLabelLoad(instr, rX, lbls, defs)
      [] OTHER -> Throw("UnhandledFormat")

\* rX of encodeInstruction: operand1 is parsed unless the format is BRANCH
FirstRegister(def, instr) ==
    IF def.format # "BRANCH" THEN parseRegister(instr.operand1) ELSE Ok(0)

\* encodeInstruction once the descriptor is found
encodeWithDef(def, instr, addr, lbls, defs) ==
    Bind(FirstRegister(def, instr),
         LAMBDA rX : encodeFormat(def, instr, rX, addr, lbls, defs))

\* Encoder::encodeInstruction, before the rethrow with the line number
encodeInstruction(instr, addr, lbls, defs) ==
    IF ~isValidInstruction(instr.opcode) THEN Throw("UnknownMnemonic")
    ELSE encodeWithDef(getInstructionDef(instr.opcode), instr, addr, lbls, defs)

\* faulty variant: .word limited to the signed 16-bit range
encodeDirective_M(dir, lbls, defs) ==
    IF dir.name = ".word"
    THEN Bind(parseImmediateOrSymbol(dir.value, lbls, defs),
              LAMBDA value :
                  IF value > 32767 \/ value < -32768 THEN Throw("WordOutOfRange")
                  ELSE Emit(<<U16(AndMask(value, 16))>>, 1))
    ELSE Emit(<<>>, 0)

\* Encoder::encodeDirective, before the rethrow with the line number
encodeDirective(dir, lbls, defs) ==
    IF dir.name = ".word"
    THEN Bind(parseImmediateOrSymbol(dir.value, lbls, defs),
              LAMBDA value :
                  IF value > 65535 \/ value < -32768 THEN Throw("WordOutOfRange")
                  ELSE Emit(<<U16(AndMask(value, 16))>>, 1))
    ELSE Emit(<<>>, 0)

\* an exception as main's catch sees it
NoError == [kind |-> "none", line |-> 0, target |-> 0, current |-> 0]

\* faulty variant: the exception carries no line number
Error_M(kind, line) == [kind |-> kind, line |-> 0, target |-> 0, current |-> 0]

Error(kind, line) == [kind |-> kind, line |-> line, target |-> 0, current |-> 0]

\* the state Encoder::encode works on
EncState(code, addr, hist) ==
    [machineCode |-> code, currentAddress |-> addr, emitAt |-> hist, err |-> NoError]

\* the switch of the loop of Encoder::encode
encodeSwitch(stmt, addr, lbls, defs) ==
    IF stmt.type = "LABEL" THEN Emit(<<>>, 0)
    ELSE IF stmt.type = "DIRECTIVE" THEN encodeDirective(stmt, lbls, defs)
    ELSE encodeInstruction(stmt, addr, lbls, defs)

\* where encode stands when it visits a statement
Visit(e) == [index |-> Len(e.machineCode), address |-> e.currentAddress]

\* faulty variant: the words of a statement put in front of machineCode
Encoded_M(stmt, e, r) ==
    [machineCode    |-> r.val.words \o e.machineCode,
     currentAddress |-> e.currentAddress + r.val.adv,
     emitAt         |-> Append(e.emitAt, Visit(e)),
     err            |-> IF r.ok THEN NoError ELSE Error(r.err, stmt.line)]

\* the encoder after a statement whose handler returned r or threw r: the pushes
\* made before a throw stay in machineCode, and the catch of encodeInstruction or
\* encodeDirective rethrows with the line of the statement
Encoded(stmt, e, r) ==
    [machineCode    |-> e.machineCode \o r.val.words,
     currentAddress |-> e.currentAddress + r.val.adv,
     emitAt         |-> Append(e.emitAt, Visit(e)),
     err            |-> IF r.ok THEN NoError ELSE Error(r.err, stmt.line)]

\* one iteration of the loop of Encoder::encode
encodeStmt(stmt, e, lbls, defs) ==
    Encoded(stmt, e, encodeSwitch(stmt, e.currentAddress, lbls, defs))

-----------------------------------------------------------------------------
(* main.cpp: the first pass *)

\* the state the first pass works on
LayoutState(addr, lbls, defs, data, hist) ==
    [currentAddress |-> addr, labels |-> lbls, defines |-> defs, isData |-> data,
     layoutAddr |-> hist, err |-> NoError]

\* numWords of the INSTRUCTION case
numWords(instr) ==
    IF instr.isLabelImmediate /\ isValidInstruction(instr.opcode)
                              /\ getInstructionDef(instr.opcode).canExpand
    THEN 2 ELSE 1

\* faulty variant: the .org test inverted
OrgRegression_M(targetAddr, addr) == targetAddr > addr

\* the .org test of the first pass
OrgRegression(targetAddr, addr) == targetAddr < addr

\* the .org branch once the target is parsed
firstPassOrg(directive, s, targetAddr) ==
    IF OrgRegression(targetAddr, s.currentAddress)
    THEN [s EXCEPT !.err = [kind |-> "OrgAddressRegression", line |-> directive.line,
                            target |-> targetAddr, current |-> s.currentAddress]]
    ELSE [s EXCEPT !.currentAddress = IF s.currentAddress < targetAddr THEN targetAddr
                                       ELSE s.currentAddress,
                   !.isData = s.isData \o [i \in 1..(targetAddr - s.currentAddress) |-> TRUE]]

\* the .define and .org branches once parseNumber returned n
firstPassParsed(directive, s, n) ==
    IF ~n.ok THEN [s EXCEPT !.err = Error(n.err, 0)]
    ELSE IF directive.name = ".define"
    THEN [s EXCEPT !.defines = addDefine(s.defines, directive.label, n.val)]
    ELSE firstPassOrg(directive, s, n.val)

\* the DIRECTIVE case of the first pass
firstPassDirective(directive, s) ==
    IF directive.name \in {".define", ".org"}
    THEN firstPassParsed(directive, s, parseNumber(directive.value))
    ELSE IF directive.name = ".word"
    THEN [s EXCEPT !.currentAddress = s.currentAddress + 1,
                   !.isData = Append(s.isData, TRUE)]
    ELSE s

\* one iteration of the loop of the first pass
firstPassStmt(stmt, s) ==
    LET t == [s EXCEPT !.layoutAddr = Append(s.layoutAddr, s.currentAddress)]
    IN  IF stmt.type = "LABEL"
        THEN [t EXCEPT !.labels = addLabel(s.labels, stmt.name, s.currentAddress)]
        ELSE IF stmt.type = "DIRECTIVE" THEN firstPassDirective(stmt, t)
        ELSE [t EXCEPT !.currentAddress = s.currentAddress + numWords(stmt),
                       !.isData = s.isData \o [i \in 1..numWords(stmt) |-> FALSE]]

-----------------------------------------------------------------------------
(* The decoders.  A decoded text is kept as its parts: the mnemonic without  *)
(* its padding blanks, the printed name of rX, and the second operand: a     *)
(* printed register name ("reg", or "mem" inside brackets), the number       *)
(* printed after "#0x" or "#-0x" ("imm"), or the number printed as a branch  *)
(* target ("target").                                                        *)

Decoded(mn, rX, kind, reg, val) ==
    [mnemonic |-> mn, rX |-> rX, kind |-> kind, reg |-> reg, val |-> val]

\* conditions[] of both decoders
conditions == <<"b", "beq", "bne", "bcc", "bcs", "bpl", "bmi", "bl">>

\* shiftTypes[] of both decoders
shiftTypes == <<"lsl", "lsr", "asr", "ror">>

\* faulty variant: the offset field read without its sign
SignExtend9_M(immediate9) == S16(immediate9)

\* int16_t offset = immediate9; if (offset & 0x100) offset |= 0xFE00;
SignExtend9(immediate9) ==
    IF Bit(immediate9, 8) = 1 THEN S16(BitOr(immediate9, \HFE00)) ELSE S16(immediate9)

\* an ALU group of both decoders: immediate or register second operand
DecodeAlu(mn, imm, rX, rY, immediate9) ==
    IF imm = 1 THEN Decoded(mn, getRegisterName(rX), "imm", <<>>, immediate9)
    ELSE Decoded(mn, getRegisterName(rX), "reg", getRegisterName(rY), 0)

\* case 7 of both decoders: CMP, shifts, HALT
DecodeGroup7(instr, imm, rX, rY, immediate9) ==
    LET shiftFlag   == Bit(instr, 8)
        immShift    == Bit(instr, 7)
        shiftType   == AndMask(Shr(instr, 5), 2)
        shiftAmount == AndMask(instr, 4)
        signedImm   == S16(BitOr(immediate9, \HFE00))
    IN  IF shiftFlag = 1
        THEN IF immShift = 1 /\ shiftType = 3 /\ Bit(instr, 4) = 1
             THEN Decoded("halt", <<>>, "none", <<>>, 0)
             ELSE IF immShift = 1
             THEN Decoded(shiftTypes[shiftType + 1], getRegisterName(rX), "imm", <<>>, shiftAmount)
             ELSE Decoded(shiftTypes[shiftType + 1], getRegisterName(rX), "reg",
                          getRegisterName(rY), 0)
        ELSE IF imm = 1
        THEN IF Bit(immediate9, 8) = 1
             THEN Decoded("cmp", getRegisterName(rX), "imm", <<>>, 0 - (0 - signedImm))
             ELSE Decoded("cmp", getRegisterName(rX), "imm", <<>>, immediate9)
        ELSE Decoded("cmp", getRegisterName(rX), "reg", getRegisterName(rY), 0)

\* disassembleInstruction of InstructionDef.h
disassembleInstruction(instr, address) ==
    LET opcode     == AndMask(Shr(instr, 13), 3)
        imm        == Bit(instr, 12)
        rX         == AndMask(Shr(instr, 9), 3)
        rY         == AndMask(instr, 3)
        immediate9 == AndMask(instr, 9)
        immediate8 == AndMask(instr, 8)
    IN  CASE opcode = 0 -> Decoded("mv", getRegisterName(rX), "reg", getRegisterName(rY), 0)
          [] opcode = 1 ->
               IF imm = 1 THEN Decoded("mvt", getRegisterName(rX), "imm", <<>>, immediate8)
               ELSE Decoded(conditions[rX + 1], <<>>, "target", <<>>,
                            address + 1 + SignExtend9(immediate9))
          [] opcode = 2 -> DecodeAlu("add", imm, rX, rY, immediate9)
          [] opcode = 3 -> DecodeAlu("sub", imm, rX, rY, immediate9)
          [] opcode = 4 ->
               IF imm = 1 THEN Decoded("pop", getRegisterName(rX), "none", <<>>, 0)
               ELSE Decoded("ld", getRegisterName(rX), "mem", getRegisterName(rY), 0)
          [] opcode = 5 ->
               IF imm = 1 THEN Decoded("push", getRegisterName(rX), "none", <<>>, 0)
               ELSE Decoded("st", getRegisterName(rX), "mem", getRegisterName(rY), 0)
          [] opcode = 6 -> DecodeAlu("and", imm, rX, rY, immediate9)
          [] OTHER -> DecodeGroup7(instr, imm, rX, rY, immediate9)

\* the decoder inlined in writeMIF
MifDecode(instr, i) ==
    LET opcode    == AndMask(Shr(instr, 13), 3)
        imm       == Bit(instr, 12)
        rX        == AndMask(Shr(instr, 9), 3)
        rY        == AndMask(instr, 3)
        immediate == AndMask(instr, 9)
        offset    == IF Bit(immediate, 8) = 1 THEN S16(BitOr(immediate, \HFF00))
                     ELSE S16(immediate)
    IN  CASE opcode = 0 -> DecodeAlu("mv", imm, rX, rY, immediate)
          [] opcode = 1 ->
               IF imm = 1
               THEN Decoded("mvt", getRegisterName(rX), "imm", <<>>, AndMask(immediate, 8))
               ELSE Decoded(conditions[rX + 1], <<>>, "target", <<>>, i + 1 + offset)
          [] opcode = 2 -> DecodeAlu("add", imm, rX, rY, immediate)
          [] opcode = 3 -> DecodeAlu("sub", imm, rX, rY, immediate)
          [] opcode = 4 ->
               IF imm = 1 THEN Decoded("pop", getRegisterName(rX), "none", <<>>, 0)
               ELSE Decoded("ld", getRegisterName(rX), "mem", getRegisterName(rY), 0)
          [] opcode = 5 ->
               IF imm = 1 THEN Decoded("push", getRegisterName(rX), "none", <<>>, 0)
               ELSE Decoded("st", getRegisterName(rX), "mem", getRegisterName(rY), 0)
          [] opcode = 6 -> DecodeAlu("and", imm, rX, rY, immediate)
          [] OTHER -> DecodeGroup7(instr, imm, rX, rY, immediate)

-----------------------------------------------------------------------------
(* main.cpp: writeMIF *)

\* memoryDepth of main when the source holds no DEPTH line
DefaultDepth == 256

NoFile == [opened |-> FALSE, depth |-> 0, lines |-> <<>>, range |-> <<>>, ended |-> FALSE]

\* the comment of content line i
MifComment(code, data, i) ==
    IF i < Len(data) /\ data[i + 1]
    THEN Decoded("data", <<>>, "none", <<>>, 0)
    ELSE MifDecode(code[i + 1], i)

\* std::hex: the lower-case hexadecimal text of a non-negative number
RECURSIVE HexText(_)
HexText(n) ==
    IF n < 16 THEN <<DigitChars[n + 1]>>
    ELSE Append(HexText(n \div 16), DigitChars[(n % 16) + 1])

\* the range line: "[" << hex << from << ".." << to << "]" << " : 0000;"
RangeLine(from, to) ==
    [from |-> from, to |-> to, value |-> 0,
     text |-> <<"[">> \o HexText(from) \o <<".", ".">> \o HexText(to)
              \o <<"]", " ", ":", " ", "0", "0", "0", "0", ";">>]

\* faulty variant: the range line written when the words fill the depth too
MifFile_M(code, data, depth) ==
    [opened |-> TRUE,
     depth  |-> depth,
     lines  |-> [k \in 1..Len(code) |->
                    [addr |-> k - 1, value |-> code[k], comment |-> MifComment(code, data, k - 1)]],
     range  |-> IF Len(code) <= depth
                THEN <<RangeLine(Len(code), depth - 1)>>
                ELSE <<>>,
     ended  |-> TRUE]

\* the file writeMIF writes once the stream is open
MifFile(code, data, depth) ==
    [opened |-> TRUE,
     depth  |-> depth,
     lines  |-> [k \in 1..Len(code) |->
                    [addr |-> k - 1, value |-> code[k], comment |-> MifComment(code, data, k - 1)]],
     range  |-> IF Len(code) < depth
                THEN <<RangeLine(Len(code), depth - 1)>>
                ELSE <<>>,
     ended  |-> TRUE]

-----------------------------------------------------------------------------
(* ast.h: the statements *)

Label(name, line) == [type |-> "LABEL", line |-> line, name |-> name]

Directive(name, label, value, line) ==
    [type |-> "DIRECTIVE", line |-> line, name |-> name, label |-> label, value |-> value]

Instruction(opcode, operand1, operand2, labelImm, imm, line) ==
    [type |-> "INSTRUCTION", line |-> line, opcode |-> opcode, operand1 |-> operand1,
     operand2 |-> operand2, isLabelImmediate |-> labelImm, isImmediate |-> imm]

\* a statement sequence with the source line of each statement: line k for
\* the k-th statement
Numbered(stmts) == [k \in 1..Len(stmts) |-> [stmts[k] EXCEPT !.line = k]]

\* no label and no define is registered twice, and no name is both (the symbol
\* table's behaviour on a second registration is left open)
SingleRegistration(stmts) ==
    \A i, j \in 1..Len(stmts) :
        /\ (i # j /\ stmts[i].type = "LABEL" /\ stmts[j].type = "LABEL")
              => stmts[i].name # stmts[j].name
        /\ (i # j /\ stmts[i].type = "DIRECTIVE" /\ stmts[j].type = "DIRECTIVE"
                  /\ stmts[i].name = ".define" /\ stmts[j].name = ".define")
              => stmts[i].label # stmts[j].label
        /\ (stmts[i].type = "LABEL" /\ stmts[j].type = "DIRECTIVE" /\ stmts[j].name = ".define")
              => stmts[i].name # stmts[j].label

-----------------------------------------------------------------------------
(* The statement sequences of the pipeline specification *)

r0 == <<"r", "0">>

r1 == <<"r", "1">>

Statements ==
    { Label(<<"L">>, 0),
      Directive(".define", <<"K">>, <<"5">>, 0),
      Directive(".org", <<>>, <<"2">>, 0),
      Directive(".org", <<>>, <<"0">>, 0),
      Directive(".word", <<>>, <<"7">>, 0),
      Directive(".space", <<>>, <<"2">>, 0),
      Directive(".ascii", <<>>, <<"a", "b">>, 0),
      Directive(".fill", <<>>, <<"2">>, 0),
      Instruction("add", r1, <<"L">>, TRUE, FALSE, 0),
      Instruction("cmp", r0, <<"L">>, TRUE, FALSE, 0) }

Programs ==
    UNION { { Numbered(p) : p \in { q \in [1..n -> Statements] : SingleRegistration(q) } }
            : n \in 0..MaxStmts }

\* the depths writeMIF is called with
Depths == {2, DefaultDepth}

-----------------------------------------------------------------------------
(* The pipeline: main's first pass, Encoder::encode, writeMIF *)

Init ==
    /\ ast \in Programs
    /\ pc = "pass1"
    /\ idx = 1
    /\ currentAddress = 0
    /\ labels = EmptyTable
    /\ defines = EmptyTable
    /\ isData = <<>>
    /\ machineCode = <<>>
    /\ enc_currentAddress = 0
    /\ err = NoError
    /\ mif = NoFile
    /\ layoutAddr = <<>>
    /\ emitAt = <<>>

\* one iteration of the first-pass loop, on a statement of the given type
FirstPass(type) ==
    /\ pc = "pass1"
    /\ idx <= Len(ast)
    /\ ast[idx].type = type
    /\ \E s \in {firstPassStmt(ast[idx],
                     LayoutState(currentAddress, labels, defines, isData, layoutAddr))} :
           /\ currentAddress' = s.currentAddress
           /\ labels' = s.labels
           /\ defines' = s.defines
           /\ isData' = s.isData
           /\ layoutAddr' = s.layoutAddr
           /\ err' = s.err
           /\ pc' = IF s.err = NoError THEN "pass1" ELSE "error"
           /\ idx' = idx + 1
    /\ UNCHANGED <<ast, machineCode, enc_currentAddress, mif, emitAt>>

FirstPassLabel == FirstPass("LABEL")

FirstPassDirective == FirstPass("DIRECTIVE")

FirstPassInstruction == FirstPass("INSTRUCTION")

\* faulty variant: encode entered before the first pass has visited every statement
EncodeBegin_M ==
    /\ pc = "pass1"
    /\ pc' = "pass2"
    /\ idx' = 1
    /\ machineCode' = <<>>
    /\ enc_currentAddress' = 0
    /\ UNCHANGED <<ast, currentAddress, labels, defines, isData, err, mif, layoutAddr, emitAt>>

\* the end of the first pass, the Encoder's construction and the head of encode
EncodeBegin ==
    /\ pc = "pass1"
    /\ idx > Len(ast)
    /\ pc' = "pass2"
    /\ idx' = 1
    /\ machineCode' = <<>>
    /\ enc_currentAddress' = 0
    /\ UNCHANGED <<ast, currentAddress, labels, defines, isData, err, mif, layoutAddr, emitAt>>

\* faulty variant: the LABEL case registers the label again, at the encoder's address
Encode_M(type) ==
    /\ pc = "pass2"
    /\ idx <= Len(ast)
    /\ ast[idx].type = type
    /\ \E e \in {encodeStmt(ast[idx], EncState(machineCode, enc_currentAddress, emitAt),
                            labels, defines)} :
           /\ machineCode' = e.machineCode
           /\ enc_currentAddress' = e.currentAddress
           /\ emitAt' = e.emitAt
           /\ err' = e.err
           /\ pc' = IF e.err = NoError THEN "pass2" ELSE "error"
           /\ idx' = idx + 1
    /\ labels' = IF type = "LABEL"
                 THEN addLabel(labels, ast[idx].name, enc_currentAddress)
                 ELSE labels
    /\ UNCHANGED <<ast, currentAddress, defines, isData, mif, layoutAddr>>

\* one iteration of the loop of Encoder::encode, on a statement of the given type
Encode(type) ==
    /\ pc = "pass2"
    /\ idx <= Len(ast)
    /\ ast[idx].type = type
    /\ \E e \in {encodeStmt(ast[idx], EncState(machineCode, enc_currentAddress, emitAt),
                            labels, defines)} :
           /\ machineCode' = e.machineCode
           /\ enc_currentAddress' = e.currentAddress
           /\ emitAt' = e.emitAt
           /\ err' = e.err
           /\ pc' = IF e.err = NoError THEN "pass2" ELSE "error"
           /\ idx' = idx + 1
    /\ UNCHANGED <<ast, currentAddress, labels, defines, isData, mif, layoutAddr>>

EncodeLabel == Encode("LABEL")

EncodeDirective == Encode("DIRECTIVE")

EncodeInstruction == Encode("INSTRUCTION")

\* encode returns machineCode to main
EncodeReturn ==
    /\ pc = "pass2"
    /\ idx > Len(ast)
    /\ pc' = "write"
    /\ UNCHANGED <<ast, idx, currentAddress, labels, defines, isData, machineCode,
                   enc_currentAddress, err, mif, layoutAddr, emitAt>>

\* writeMIF: the stream opens or not; the file is written and closed
WriteMIF ==
    /\ pc = "write"
    /\ \E depth \in Depths, opens \in BOOLEAN :
          IF opens
          THEN /\ mif' = MifFile(machineCode, isData, depth)
               /\ pc' = "done"
               /\ err' = err
          ELSE /\ mif' = mif
               /\ pc' = "error"
               /\ err' = Error("OutputDestinationUnavailable", 0)
    /\ UNCHANGED <<ast, idx, currentAddress, labels, defines, isData, machineCode,
                   enc_currentAddress, layoutAddr, emitAt>>

Next ==
    \/ FirstPassLabel
    \/ FirstPassDirective
    \/ FirstPassInstruction
    \/ EncodeBegin
    \/ EncodeLabel
    \/ EncodeDirective
    \/ EncodeInstruction
    \/ EncodeReturn
    \/ WriteMIF

Spec == Init /\ [][Next]_vars

-----------------------------------------------------------------------------
(* The encoder specification: Encoder::encode stands at one statement of a   *)
(* program, after the whole first pass and the statements before it.  The    *)
(* state it starts from is computed with the operators of the two loops.     *)

\* the first pass over stmts[lo..hi], stopping at the first exception
RECURSIVE LayoutRange(_, _, _, _)
LayoutRange(stmts, lo, hi, s) ==
    IF lo > hi \/ s.err # NoError THEN s
    ELSE IF lo = hi THEN firstPassStmt(stmts[lo], s)
    ELSE LayoutRange(stmts, ((lo + hi) \div 2) + 1, hi,
                     LayoutRange(stmts, lo, (lo + hi) \div 2, s))

\* encode over stmts[lo..hi], stopping at the first exception
RECURSIVE EncodeRange(_, _, _, _, _, _)
EncodeRange(stmts, lo, hi, e, lbls, defs) ==
    IF lo > hi \/ e.err # NoError THEN e
    ELSE IF lo = hi THEN encodeStmt(stmts[lo], e, lbls, defs)
    ELSE EncodeRange(stmts, ((lo + hi) \div 2) + 1, hi,
                     EncodeRange(stmts, lo, (lo + hi) \div 2, e, lbls, defs), lbls, defs)

\* the decimal text of a number
RECURSIVE DecText(_)
DecText(n) ==
    IF n < 0 THEN <<"-">> \o DecText(0 - n)
    ELSE IF n < 10 THEN <<DigitChars[n + 1]>>
    ELSE Append(DecText(n \div 10), DigitChars[(n % 10) + 1])

\* the farthest address a branch of the encoder specification stands at
FarAddress == 257

Pad(n) == [k \in 1..n |-> Directive(".word", <<>>, <<"0">>, 0)]

BranchMnemonics ==
    {getInstructionTable[i].mnemonic : i \in {j \in DOMAIN getInstructionTable :
                                                 getInstructionTable[j].format = "BRANCH"}}

BranchAddrs == {0, 1, 2, FarAddress - 1, FarAddress}

BranchOffsets == {-257, -256, -255, -2, -1, 0, 1, 2, 254, 255, 256}

\* a branch at address a to the label L at address t: the label before the
\* branch, or after it behind an .org
BranchCase(m, a, t) ==
    IF t <= a
    THEN [stmts |-> Numbered(Pad(t) \o <<Label(<<"L">>, 0)>> \o Pad(a - t)
                             \o <<Instruction(m, <<"L">>, <<>>, FALSE, FALSE, 0)>>),
          at    |-> a + 2]
    ELSE [stmts |-> Numbered(Pad(a) \o <<Instruction(m, <<"L">>, <<>>, FALSE, FALSE, 0),
                                         Directive(".org", <<>>, DecText(t), 0),
                                         Label(<<"L">>, 0)>>),
          at    |-> a + 1]

\* every branch mnemonic at the near addresses, two of them at the far ones
BranchCases ==
    { BranchCase(c[1], c[2], c[2] + 1 + c[3]) :
        c \in { x \in BranchMnemonics \X BranchAddrs \X BranchOffsets :
                   /\ x[2] + 1 + x[3] >= 0
                   /\ x[2] > 2 => x[1] \in {"beq", "bl"} } }

RegisterNames == {getRegisterTable[i].name : i \in DOMAIN getRegisterTable}

T_count == <<"c", "o", "u", "n", "t">>

T_K == <<"K">>

\* the immediates around the ends of the 8-bit, 9-bit and shift ranges
ImmediateValues == {-257, -256, -255, -129, -128, -2, -1, 0, 1, 5, 15, 16, 127, 128, 255, 256}

FirstOperands == RegisterNames \cup {<<>>, T_count}

\* the mnemonics whose encoding reads operand2, and an unknown one
TwoOperandMnemonics ==
    {getInstructionTable[i].mnemonic :
        i \in {j \in DOMAIN getInstructionTable :
                  getInstructionTable[j].format \notin {"BRANCH", "REG_ONLY", "NO_OPERAND"}}}
    \cup {"nop"}

SecondOperands ==
    RegisterNames
    \cup { <<"#">> \o DecText(v) : v \in ImmediateValues }
    \cup { <<>>, T_K, T_count, <<"=">> \o T_count, <<"z">>, <<"0", "x", "2", "0">> }

OperandFlags == {<<FALSE, FALSE>>, <<FALSE, TRUE>>, <<TRUE, FALSE>>}

\* one instruction at address 0, with the define K = 5 and the label count at 0x20
InstructionCase(stmt) ==
    [stmts |-> Numbered(<< Directive(".define", T_K, <<"5">>, 0),
                           stmt,
                           Directive(".org", <<>>, <<"0", "x", "2", "0">>, 0),
                           Label(T_count, 0) >>),
     at    |-> 2]

\* every first operand with a few second operands, and a few first operands
\* with every second operand
InstructionCases ==
    { InstructionCase(Instruction(c[1], c[2], c[3], c[4][1], c[4][2], 0)) :
        c \in TwoOperandMnemonics \X FirstOperands
               \X {<<"r", "2">>, <<"#", "5">>, <<"=">> \o T_count, <<>>} \X OperandFlags }
    \cup
    { InstructionCase(Instruction(c[1], c[2], c[3], c[4][1], c[4][2], 0)) :
        c \in TwoOperandMnemonics \X {r1, <<"p", "c">>} \X SecondOperands \X OperandFlags }
    \cup
    { InstructionCase(Instruction(c[1], c[2], <<>>, FALSE, FALSE, 0)) :
        c \in (Mnemonics \ TwoOperandMnemonics) \X FirstOperands }

\* the values a =K operand resolves to
WideValues == {-1, 0, 32, 255, 256, 4660, 32767, 32768, 65535, 65536, 70000}

WideMnemonics ==
    {getInstructionTable[i].mnemonic : i \in {j \in DOMAIN getInstructionTable :
                                                 getInstructionTable[j].format = "REG_IMM_OR_REG"}}

\* a =K instruction behind the define of K
WideCases ==
    { [stmts |-> Numbered(<< Directive(".define", T_K, DecText(c[3]), 0),
                             Instruction(c[1], c[2], c[4], TRUE, FALSE, 0) >>),
       at    |-> 2] :
        c \in WideMnemonics \X RegisterNames \X WideValues \X {T_K, <<"=">> \o T_K} }

\* the operand texts that name K: plain, #K and =K
NamingK == {T_K, <<"#">> \o T_K, <<"=">> \o T_K}

\* an instruction whose operand names K, with K a define only (5), or a
\* define (5) and also a label (at 0x20)
SymbolCases ==
    { [stmts |-> Numbered(<< Directive(".define", T_K, <<"5">>, 0), stmt,
                             Directive(".org", <<>>, <<"0", "x", "2", "0">>, 0) >> \o tail),
       at    |-> 2] :
        stmt \in { Instruction(c[1], r1, c[2], c[3][1], c[3][2], 0) :
                     c \in {"mv", "add", "cmp", "mvt", "lsl"} \X NamingK \X OperandFlags }
                 \cup { Instruction(m, T_K, <<>>, FALSE, FALSE, 0) : m \in {"b", "beq"} },
        tail \in { <<>>, <<Label(T_K, 0)>> } }

\* the word counts of the writer cases
WordCounts == {1, 2, 3, 10}

\* a program of n .word statements, about to encode its last one
WriterCases == { [stmts |-> Numbered(Pad(n)), at |-> n] : n \in WordCounts }

\* the .word values around the ends of the range
WordValues == {-32769, -32768, -1, 0, 7, 32767, 32768, 65535, 65536}

\* a directive at address 1, behind one word, with the define K = 5 and the
\* label count at 0x20
DirectiveCases ==
    { [stmts |-> Numbered(<< Directive(".define", T_K, <<"5">>, 0),
                             Directive(".word", <<>>, <<"1">>, 0),
                             dir,
                             Directive(".org", <<>>, <<"0", "x", "2", "0">>, 0),
                             Label(T_count, 0) >>),
       at    |-> 3] :
        dir \in { Directive(".word", <<>>, DecText(v), 0) : v \in WordValues }
                \cup { Directive(".word", <<>>, t, 0) : t \in {T_K, T_count, <<"z">>, <<>>} }
                \cup { Directive(".define", <<"J">>, <<"9">>, 0),
                       Directive(".org", <<>>, <<"4">>, 0),
                       Directive(".space", <<>>, <<"2">>, 0),
                       Directive(".ascii", <<>>, <<"a", "b">>, 0),
                       Directive(".asciiz", <<>>, <<"a", "b">>, 0),
                       Directive(".fill", <<>>, <<"2">>, 0) } }

\* a =label instruction behind one word, whose register or symbol is not valid
FailingCases ==
    { [stmts |-> Numbered(<< Directive(".word", <<>>, <<"1">>, 0),
                             Instruction(c[1], c[2], c[3], TRUE, FALSE, 0) >>),
       at    |-> 2] :
        c \in WideMnemonics \X {r1, T_count} \X {T_count, <<"=", "z">>} }

EncoderCases ==
    BranchCases \cup InstructionCases \cup WideCases \cup SymbolCases \cup WriterCases
    \cup DirectiveCases \cup FailingCases

\* the pipeline state when encode reaches statement at of stmts
AtStatement(stmts, at, s, e) ==
    /\ s.err = NoError
    /\ e.err = NoError
    /\ ast = stmts
    /\ pc = "pass2"
    /\ idx = at
    /\ currentAddress = s.currentAddress
    /\ labels = s.labels
    /\ defines = s.defines
    /\ isData = s.isData
    /\ layoutAddr = s.layoutAddr
    /\ machineCode = e.machineCode
    /\ enc_currentAddress = e.currentAddress
    /\ emitAt = e.emitAt
    /\ err = NoError
    /\ mif = NoFile

InitEnc ==
    \E c \in EncoderCases :
        \E s \in {LayoutRange(c.stmts, 1, Len(c.stmts),
                              LayoutState(0, EmptyTable, EmptyTable, <<>>, <<>>))} :
            \E e \in {EncodeRange(c.stmts, 1, c.at - 1, EncState(<<>>, 0, <<>>),
                                  s.labels, s.defines)} :
                AtStatement(c.stmts, c.at, s, e)

NextEnc ==
    \/ EncodeLabel
    \/ EncodeDirective
    \/ EncodeInstruction
    \/ EncodeReturn
    \/ WriteMIF

SpecEnc == InitEnc /\ [][NextEnc]_vars

-----------------------------------------------------------------------------
(* Properties *)

\* encode has just visited statement k and no later step has been taken
AfterEncode(k) ==
    /\ k >= 1
    /\ idx = k + 1
    /\ Len(emitAt) = k
    /\ pc \in {"pass2", "error"}
    /\ err.kind # "OutputDestinationUnavailable"

\* the first pass has just visited statement k and no later step has been taken
AfterLayout(k) ==
    /\ k >= 1
    /\ idx = k + 1
    /\ Len(layoutAddr) = k
    /\ emitAt = <<>>
    /\ pc \in {"pass1", "error"}

\* the words encode appended for statement k, seen right after it
Appended(k) == SubSeq(machineCode, emitAt[k].index + 1, Len(machineCode))

\* the words the first pass counted for statement k, seen after the first pass
LayoutWords(k) ==
    (IF k < Len(layoutAddr) THEN layoutAddr[k + 1] ELSE currentAddress) - layoutAddr[k]

IsInstruction(k) == ast[k].type = "INSTRUCTION" /\ isValidInstruction(ast[k].opcode)

FormatOf(k) == getInstructionDef(ast[k].opcode).format

RegNum(name) == parseRegister(name).val

\* C1: after two successful passes the output word array is as long as the
\* classification vector.
C1_SameLength ==
    pc \in {"write", "done"} => Len(machineCode) = Len(isData)

\* C2: after two successful passes every label's address is the index, in the
\* output word array, of the first word emitted after the label.
C2_LabelIsOutputIndex ==
    pc \in {"write", "done"} =>
        \A k \in 1..Len(ast) :
            ast[k].type = "LABEL" => labels[ast[k].name] = emitAt[k].index

\* C3: for every instruction the second pass encodes, the words it appends are
\* as many as the first pass counted: 2 exactly for a label-immediate on a
\* mnemonic with canExpand, otherwise 1.
C3_SameWordCount ==
    \A k \in 1..Len(ast) :
        (AfterEncode(k) /\ pc = "pass2" /\ IsInstruction(k)) =>
            /\ Len(Appended(k)) = LayoutWords(k)
            /\ LayoutWords(k) = IF ast[k].isLabelImmediate
                                   /\ getInstructionDef(ast[k].opcode).canExpand
                                THEN 2 ELSE 1

IsBranchTo(k) ==
    /\ IsInstruction(k)
    /\ ast[k].opcode \in BranchMnemonics
    /\ ast[k].operand1 \in DOMAIN labels

\* t - (a + 1) for the branch at statement k
OffsetOf(k) == labels[ast[k].operand1] - (emitAt[k].address + 1)

\* C4: a branch with condition code c at address a to a label at t has
\* offset t - (a + 1); it fails when the offset is below -256 or above 255 and
\* otherwise appends exactly 0x2000 | (c << 9) | (offset mod 512).
C4_BranchEncoding ==
    \A k \in 1..Len(ast) :
        (AfterEncode(k) /\ IsBranchTo(k)) =>
            IF OffsetOf(k) < -256 \/ OffsetOf(k) > 255
            THEN pc = "error" /\ Appended(k) = <<>>
            ELSE /\ pc = "pass2"
                 /\ Appended(k) = << \H2000 + getInstructionDef(ast[k].opcode).extraData * 512
                                     + (OffsetOf(k) % 512) >>

\* beq to a target 3 words after the branch is encoded with offset 2
C4_Witness ==
    \E k \in 1..Len(ast) :
        /\ AfterEncode(k)
        /\ IsBranchTo(k)
        /\ ast[k].opcode = "beq"
        /\ labels[ast[k].operand1] = emitAt[k].address + 3
        /\ Appended(k) = <<\H2202>>

\* C5: for every branch and every offset d in -256..255, both decoders read
\* the encoded word at the branch address back as the same mnemonic and the
\* target a + 1 + d.
C5_BranchRoundTrip ==
    \A k \in 1..Len(ast) :
        (AfterEncode(k) /\ IsBranchTo(k) /\ OffsetOf(k) \in -256..255) =>
            /\ pc = "pass2"
            /\ Len(Appended(k)) = 1
            /\ disassembleInstruction(machineCode[Len(machineCode)], emitAt[k].address)
                 = Decoded(ast[k].opcode, <<>>, "target", <<>>,
                           emitAt[k].address + 1 + OffsetOf(k))
            /\ MifDecode(machineCode[Len(machineCode)], emitAt[k].index)
                 = Decoded(ast[k].opcode, <<>>, "target", <<>>,
                           emitAt[k].address + 1 + OffsetOf(k))

\* a branch with the most negative offset is decoded back to its target
C5_Witness ==
    \E k \in 1..Len(ast) :
        /\ AfterEncode(k)
        /\ IsBranchTo(k)
        /\ OffsetOf(k) = -256
        /\ disassembleInstruction(machineCode[Len(machineCode)], emitAt[k].address).val
             = labels[ast[k].operand1]

\* statement k is a reg-immediate or reg-immediate-or-reg instruction whose
\* operand is #v
IsImmediateOf(k, v) ==
    /\ IsInstruction(k)
    /\ \/ FormatOf(k) = "REG_IMM"
       \/ FormatOf(k) = "REG_IMM_OR_REG" /\ ast[k].isImmediate /\ ~ast[k].isLabelImmediate
    /\ ast[k].operand1 \in RegisterNames
    /\ ast[k].operand2 = <<"#">> \o DecText(v)

\* C6: a #value operand of immediate width b fails outside
\* [-(2^(b-1)), 2^(b-1)-1] and otherwise appends exactly
\* opcodeImm | (rX << 9) | (value mod 2^b).
C6_ImmediateEncoding ==
    \A k \in 1..Len(ast) : \A v \in ImmediateValues :
        (AfterEncode(k) /\ IsImmediateOf(k, v)) =>
            LET def == getInstructionDef(ast[k].opcode)
            IN  IF v < 0 - Pow2(def.immBits - 1) \/ v > Pow2(def.immBits - 1) - 1
                THEN pc = "error" /\ Appended(k) = <<>>
                ELSE /\ pc = "pass2"
                     /\ Appended(k) = << def.opcodeImm + RegNum(ast[k].operand1) * 512
                                         + (v % Pow2(def.immBits)) >>

\* mv r0, #5 encodes to 0x1005
C6_Witness ==
    \E k \in 1..Len(ast) :
        /\ AfterEncode(k)
        /\ IsImmediateOf(k, 5)
        /\ ast[k].opcode = "mv"
        /\ ast[k].operand1 = r0
        /\ Appended(k) = <<\H1005>>

\* the second operand disassembleInstruction must give back for statement k
SameSecondOperand(k, d) ==
    CASE FormatOf(k) \in {"REG_REG", "REG_MEM"} ->
            d.kind \in {"reg", "mem"} /\ RegNum(d.reg) = RegNum(ast[k].operand2)
      [] FormatOf(k) = "REG_IMM" \/ (FormatOf(k) \in {"REG_IMM_OR_REG", "SHIFT"}
                                     /\ ast[k].isImmediate) ->
            /\ d.kind = "imm"
            /\ \A v \in ImmediateValues : ast[k].operand2 = <<"#">> \o DecText(v) => d.val = v
      [] FormatOf(k) \in {"REG_IMM_OR_REG", "SHIFT"} /\ ~ast[k].isImmediate ->
            d.kind = "reg" /\ RegNum(d.reg) = RegNum(ast[k].operand2)
      [] FormatOf(k) = "BRANCH" ->
            d.kind = "target" /\ d.val = labels[ast[k].operand1]
      [] OTHER -> TRUE

\* C7: every single-word instruction the encoder produces is decoded by
\* disassembleInstruction to the same mnemonic, the same rX and the same
\* second operand.
C7_DecodeRoundTrip ==
    \A k \in 1..Len(ast) :
        (AfterEncode(k) /\ pc = "pass2" /\ IsInstruction(k) /\ Len(Appended(k)) = 1) =>
            LET d == disassembleInstruction(machineCode[Len(machineCode)], emitAt[k].address)
            IN  /\ d.mnemonic = ast[k].opcode
                /\ FormatOf(k) # "BRANCH" => RegNum(d.rX) = RegNum(ast[k].operand1)
                /\ SameSecondOperand(k, d)

\* the name a =symbol operand refers to
SymbolOf(operand2) ==
    IF operand2 # <<>> /\ Head(operand2) = "=" THEN Tail(operand2) ELSE operand2

\* statement k is a reg-immediate-or-reg instruction with a label-immediate
\* operand that names a label or a define, and not both
IsLabelImmediateOf(k) ==
    /\ IsInstruction(k)
    /\ FormatOf(k) = "REG_IMM_OR_REG"
    /\ ast[k].isLabelImmediate
    /\ ast[k].operand1 \in RegisterNames
    /\ SymbolOf(ast[k].operand2) \in DOMAIN labels \cup DOMAIN defines
    /\ SymbolOf(ast[k].operand2) \notin DOMAIN labels \cap DOMAIN defines

\* the value the symbol table holds for the operand of statement k
SymbolValue(k) ==
    IF SymbolOf(ast[k].operand2) \in DOMAIN labels
    THEN labels[SymbolOf(ast[k].operand2)]
    ELSE defines[SymbolOf(ast[k].operand2)]

IsAddR1Count(k) ==
    /\ ast[k] = Instruction("add", r1, T_count, TRUE, FALSE, k)
    /\ T_count \in DOMAIN labels
    /\ labels[T_count] = 32

\* C9: add r1, =count with count at 0x0020 emits exactly the two words
\* 0x3000 | (1 << 9) | 0x00 = 0x3200 and then 0x5000 | (1 << 9) | 0x20 = 0x5220.
C9_AddCount ==
    \A k \in 1..Len(ast) :
        (AfterEncode(k) /\ IsAddR1Count(k)) =>
            pc = "pass2" /\ Appended(k) = <<\H3200, \H5220>>

\* add r1, =count has been encoded into two words
C9_Witness ==
    \E k \in 1..Len(ast) :
        AfterEncode(k) /\ IsAddR1Count(k) /\ Len(Appended(k)) = 2

\* C9 with the words of the scenario as written: 0x3100 then 0x5120
C9_AsStated ==
    \A k \in 1..Len(ast) :
        (AfterEncode(k) /\ IsAddR1Count(k)) =>
            pc = "pass2" /\ Appended(k) = <<\H3100, \H5120>>

\* the .org targets of the pipeline specification
OrgTargets == 0..2

\* statement k is an .org whose target t is below the address it is met at
IsOrgBelow(k, t) ==
    /\ ast[k].type = "DIRECTIVE"
    /\ ast[k].name = ".org"
    /\ ast[k].value = DecText(t)
    /\ t < layoutAddr[k]

\* C10: in the first pass an .org below the current address always fails with
\* an error naming the target and the current address, and the first-pass
\* address counter never decreases.
C10_OrgRegression ==
    /\ \A k \in 1..Len(ast) : \A t \in OrgTargets :
          (AfterLayout(k) /\ IsOrgBelow(k, t)) =>
              /\ pc = "error"
              /\ err.kind = "OrgAddressRegression"
              /\ err.target = t
              /\ err.current = layoutAddr[k]
              /\ currentAddress = layoutAddr[k]
    /\ \A i \in 1..Len(layoutAddr) :
          layoutAddr[i] <= (IF i < Len(layoutAddr) THEN layoutAddr[i + 1] ELSE currentAddress)

\* an .org 0 met at a later address has failed
C10_Witness ==
    \E k \in 1..Len(ast) :
        /\ AfterLayout(k)
        /\ IsOrgBelow(k, 0)
        /\ err.kind = "OrgAddressRegression"
        /\ err.target < err.current

\* statement k is an .org whose target is t
IsOrgTo(k, t) ==
    /\ ast[k].type = "DIRECTIVE"
    /\ ast[k].name = ".org"
    /\ ast[k].value = DecText(t)

\* C11: an .org whose target is at or above the current address succeeds, the
\* final image holds zero-valued data words at the addresses current..target-1,
\* and the statement after the .org is placed at address target.
C11_OrgFill ==
    \A k \in 1..Len(ast) : \A t \in OrgTargets :
        /\ (AfterLayout(k) /\ IsOrgTo(k, t) /\ t >= layoutAddr[k]) =>
              pc = "pass1" /\ currentAddress = t
        /\ (pc = "done" /\ IsOrgTo(k, t)) =>
              /\ \A a \in layoutAddr[k]..(t - 1) :
                    /\ a + 1 <= Len(mif.lines)
                    /\ mif.lines[a + 1].value = 0
                    /\ mif.lines[a + 1].comment.mnemonic = "data"
              /\ k < Len(ast) => emitAt[k + 1].index = t

\* the words the claim gives a data directive: N for .space N, one per
\* character for .ascii, one more for .asciiz
DataWords(directive) ==
    CASE directive.name = ".space"  -> CHOOSE n \in 0..9 : DecText(n) = directive.value
      [] directive.name = ".ascii"  -> Len(directive.value)
      [] directive.name = ".asciiz" -> Len(directive.value) + 1

IsDataDirective(k) ==
    /\ ast[k].type = "DIRECTIVE"
    /\ ast[k].name \in {".space", ".ascii", ".asciiz"}

\* C12: in the first pass .space N advances the address counter by N data
\* entries, .ascii by one per character and .asciiz by one more, so that a
\* label after the directive is registered at the advanced address.
C12_DataDirectiveSizes ==
    \A k \in 1..Len(ast) :
        (AfterLayout(k) /\ IsDataDirective(k)) =>
            /\ pc = "pass1"
            /\ currentAddress = layoutAddr[k] + DataWords(ast[k])
            /\ Len(isData) = currentAddress
            /\ \A i \in (layoutAddr[k] + 1)..currentAddress : isData[i]

\* the directive vocabulary
DirectiveNames == {".word", ".define", ".org", ".space", ".ascii", ".asciiz"}

IsUnknownDirective(k) ==
    ast[k].type = "DIRECTIVE" /\ ast[k].name \notin DirectiveNames

\* C17: a directive whose name is outside the directive vocabulary makes the
\* run fail with UnknownDirective: no run holding one gets through both passes
\* to the writer.
C17_UnknownDirectiveFails ==
    /\ pc \in {"write", "done"} => \A k \in 1..Len(ast) : ~IsUnknownDirective(k)
    /\ \A k \in 1..Len(ast) :
          (IsUnknownDirective(k) /\ AfterEncode(k)) =>
              pc = "error" /\ err.kind = "UnknownDirective"

\* an operand text without its leading # or =
Stripped(text) ==
    IF text # <<>> /\ Head(text) \in {"#", "="} THEN Tail(text) ELSE text

\* the operand text names a define or a label
IsSymbolText(text) == Stripped(text) \in DOMAIN defines \cup DOMAIN labels

\* the value of a symbol operand in the stated order: the define, else the label
SymbolFirstDefine(text) ==
    IF Stripped(text) \in DOMAIN defines THEN defines[Stripped(text)]
    ELSE labels[Stripped(text)]

\* C13: in every format an operand text naming a symbol is used with the
\* define's value if it names a define, else with the label's address: the
\* two words of a label-immediate, the word of a #immediate and the word of a
\* branch are built from that value.
C13_ResolutionOrder ==
    \A k \in 1..Len(ast) :
        (AfterEncode(k) /\ IsInstruction(k)) =>
            /\ (FormatOf(k) = "REG_IMM_OR_REG" /\ ast[k].isLabelImmediate
                /\ ast[k].operand1 \in RegisterNames /\ IsSymbolText(ast[k].operand2)) =>
                  LET v   == SymbolFirstDefine(ast[k].operand2)
                      rX  == RegNum(ast[k].operand1)
                      op2 == IF ast[k].opcode = "mv" THEN \H5000
                             ELSE getInstructionDef(ast[k].opcode).opcodeImm
                  IN  /\ pc = "pass2"
                      /\ Appended(k) = << \H3000 + rX * 512 + ((v \div 256) % 256),
                                          op2 + rX * 512 + (v % 256) >>
            /\ (FormatOf(k) = "REG_IMM_OR_REG" /\ ~ast[k].isLabelImmediate /\ ast[k].isImmediate
                /\ ast[k].operand1 \in RegisterNames /\ IsSymbolText(ast[k].operand2)
                /\ SymbolFirstDefine(ast[k].operand2) \in -256..255) =>
                  /\ pc = "pass2"
                  /\ Appended(k) = << getInstructionDef(ast[k].opcode).opcodeImm
                                      + RegNum(ast[k].operand1) * 512
                                      + (SymbolFirstDefine(ast[k].operand2) % 512) >>
            /\ (FormatOf(k) = "BRANCH" /\ IsSymbolText(ast[k].operand1)
                /\ SymbolFirstDefine(ast[k].operand1) - (emitAt[k].address + 1) \in -256..255) =>
                  /\ pc = "pass2"
                  /\ Appended(k) = << \H2000 + getInstructionDef(ast[k].opcode).extraData * 512
                                      + ((SymbolFirstDefine(ast[k].operand1)
                                          - (emitAt[k].address + 1)) % 512) >>

\* C14: halt with empty operand texts is encoded into exactly one word, the
\* fixed opcode 0xE1F0, and the address counter advances by 1.
C14_HaltWord ==
    \A k \in 1..Len(ast) :
        (AfterEncode(k) /\ ast[k] = Instruction("halt", <<>>, <<>>, FALSE, FALSE, k)) =>
            /\ pc = "pass2"
            /\ Appended(k) = <<\HE1F0>>
            /\ enc_currentAddress = emitAt[k].address + 1

\* C15: the writer fails whenever the emitted words are more than the
\* declared depth, and then no image is written: a written image never holds
\* more content lines than its depth.
C15_DepthEnforced ==
    pc = "done" => Len(machineCode) <= mif.depth

\* C16: for n words and depth d the writer emits exactly n content lines, for
\* the addresses 0..n-1 in increasing order, then one range line covering
\* n..d-1 with value 0000 when n < d and none when n >= d, then the END marker;
\* n = 10 and d = 256 give the range line [a..ff] : 0000;
C16_WriterLines ==
    pc = "done" =>
        /\ Len(mif.lines) = Len(machineCode)
        /\ \A i \in 1..Len(mif.lines) :
              mif.lines[i].addr = i - 1 /\ mif.lines[i].value = machineCode[i]
        /\ IF Len(machineCode) < mif.depth
           THEN /\ Len(mif.range) = 1
                /\ mif.range[1].from = Len(machineCode)
                /\ mif.range[1].to = mif.depth - 1
                /\ mif.range[1].value = 0
           ELSE mif.range = <<>>
        /\ mif.ended
        /\ (Len(machineCode) = 10 /\ mif.depth = 256) =>
              mif.range[1].text = <<"[", "a", ".", ".", "f", "f", "]", " ", ":", " ",
                                    "0", "0", "0", "0", ";">>

\* ten words written under depth 256, with the range line [a..ff]
C16_Witness ==
    /\ pc = "done"
    /\ Len(mif.lines) = 10
    /\ mif.depth = 256
    /\ mif.range # <<>>
    /\ mif.range[1].from = 10
    /\ mif.range[1].to = 255

ShiftMnemonics == {"lsl", "lsr", "asr", "ror"}

\* bits hi..lo of a word
Bits(w, hi, lo) == (w \div Pow2(lo)) % Pow2(hi - lo + 1)

\* statement k is a shift of a valid register by the immediate amount #v
IsShiftBy(k, v) ==
    /\ IsInstruction(k)
    /\ ast[k].opcode \in ShiftMnemonics
    /\ ast[k].operand1 \in RegisterNames
    /\ ast[k].isImmediate
    /\ ast[k].operand2 = <<"#">> \o DecText(v)

\* statement k is a shift of a valid register by a register
IsShiftByRegister(k) ==
    /\ IsInstruction(k)
    /\ ast[k].opcode \in ShiftMnemonics
    /\ ast[k].operand1 \in RegisterNames
    /\ ~ast[k].isImmediate
    /\ ast[k].operand2 \in RegisterNames

\* C18: a shift with an immediate amount fails when the amount is outside
\* 0..15; otherwise exactly one word is appended, with rX in bits 11..9, the
\* shift kind in bits 6..5, and bit 7 set with the amount in bits 3..0 for an
\* immediate, bit 7 clear with the register in bits 2..0 for a register.
C18_ShiftEncoding ==
    \A k \in 1..Len(ast) :
        /\ \A v \in ImmediateValues :
              (AfterEncode(k) /\ IsShiftBy(k, v)) =>
                  IF v < 0 \/ v > 15
                  THEN pc = "error" /\ Appended(k) = <<>>
                  ELSE /\ pc = "pass2"
                       /\ Len(Appended(k)) = 1
                       /\ Bits(Appended(k)[1], 11, 9) = RegNum(ast[k].operand1)
                       /\ Bits(Appended(k)[1], 6, 5) = getInstructionDef(ast[k].opcode).extraData
                       /\ Bits(Appended(k)[1], 7, 7) = 1
                       /\ Bits(Appended(k)[1], 3, 0) = v
        /\ (AfterEncode(k) /\ IsShiftByRegister(k)) =>
              /\ pc = "pass2"
              /\ Len(Appended(k)) = 1
              /\ Bits(Appended(k)[1], 11, 9) = RegNum(ast[k].operand1)
              /\ Bits(Appended(k)[1], 6, 5) = getInstructionDef(ast[k].opcode).extraData
              /\ Bits(Appended(k)[1], 7, 7) = 0
              /\ Bits(Appended(k)[1], 2, 0) = RegNum(ast[k].operand2)

\* asr r1, #15 is encoded with kind 2, the immediate bit and the amount 15
C18_Witness ==
    \E k \in 1..Len(ast) :
        /\ AfterEncode(k)
        /\ IsShiftBy(k, 15)
        /\ ast[k].opcode = "asr"
        /\ ast[k].operand1 = r1
        /\ Appended(k) = <<\HE3CF>>

IsWordOf(k, text) ==
    ast[k].type = "DIRECTIVE" /\ ast[k].name = ".word" /\ ast[k].value = text

PassFailed == pc = "error" /\ err.kind # "OutputDestinationUnavailable"

\* C20: the second pass visits its first statement only after the first pass
\* has visited every statement; the writer is reached, and the output opened,
\* only after the second pass has visited every statement without error; when
\* a pass fails the writer is never invoked and no image file exists.
C20_SequentialPipeline ==
    /\ (pc = "pass2" \/ emitAt # <<>>) => Len(layoutAddr) = Len(ast)
    /\ (pc \in {"write", "done"} \/ mif # NoFile) =>
          /\ Len(layoutAddr) = Len(ast)
          /\ Len(emitAt) = Len(ast)
          /\ err = NoError
    /\ mif.opened => pc = "done"
    /\ PassFailed => mif = NoFile

\* the second pass has failed on a later statement and nothing was written
C20_Witness ==
    /\ PassFailed
    /\ Len(emitAt) >= 2
    /\ Len(layoutAddr) = Len(ast)
    /\ mif = NoFile

\* C21: during the second pass, whether it succeeds or fails, the labels, the
\* defines and the classification vector are left as the first pass built
\* them: every step taken from the second pass leaves all three unchanged.
C21_SecondPassReadsOnly ==
    [][pc = "pass2" => /\ labels' = labels
                       /\ defines' = defines
                       /\ isData' = isData]_vars

\* the second pass has resolved a label-immediate operand through a symbol
\* table that holds a label, with a classification vector that is not empty
C21_Witness ==
    \E k \in 1..Len(ast) :
        /\ AfterEncode(k)
        /\ IsLabelImmediateOf(k)
        /\ DOMAIN labels # {}
        /\ isData # <<>>

\* s is t or the beginning of t
IsPrefix(s, t) == Len(s) <= Len(t) /\ s = SubSeq(t, 1, Len(s))

\* C22: the output word array is empty when the second pass starts, and every
\* step of the second pass leaves its previous contents as a prefix of its
\* new contents.
C22_AppendOnly ==
    [][/\ (pc # "pass2" /\ pc' = "pass2") => machineCode' = <<>>
       /\ pc = "pass2" => IsPrefix(machineCode, machineCode')]_vars

\* a statement has appended words behind the words of earlier statements
C22_Witness ==
    \E k \in 1..Len(ast) :
        /\ AfterEncode(k)
        /\ emitAt[k].index >= 1
        /\ Len(machineCode) > emitAt[k].index

\* the failures of the handlers of the second pass; the last one is that of a
\* format the switch of encodeInstruction has no case for
EncodeFailures ==
    {"UnknownMnemonic", "InvalidRegisterName", "ImmediateOutOfRange",
     "ShiftAmountOutOfRange", "BranchOffsetOutOfRange", "UndefinedSymbol",
     "UnresolvableOperand", "WordOutOfRange", "UnhandledFormat"}

\* the second pass has failed on statement k
FailedAt(k) == AfterEncode(k) /\ pc = "error"

\* C23: every failure raised while the second pass processes a statement
\* (unknown mnemonic, invalid register, immediate or shift amount out of range,
\* branch out of range, undefined or unresolvable symbol, .word out of range)
\* reaches the caller as an error that carries the source line number of
\* exactly that statement.
C23_FailureCarriesLine ==
    \A k \in 1..Len(ast) :
        FailedAt(k) => /\ err.kind \in EncodeFailures
                       /\ err.line = ast[k].line
                       /\ \A j \in 1..Len(ast) : err.line = ast[j].line => j = k

\* a branch behind other statements is out of range and the error carries the
\* line of the branch
C23_Witness ==
    \E k \in 2..Len(ast) :
        /\ FailedAt(k)
        /\ err.kind = "BranchOffsetOutOfRange"
        /\ err.line = ast[k].line
        /\ err.line >= 2

\* the target a decoder computes from the branch word w at output index i:
\* i + 1 + the 9-bit offset of w, sign-extended
TargetAt(w, i) == i + 1 + (IF w % 512 >= 256 THEN (w % 512) - 512 ELSE w % 512)

\* C24: throughout the second pass, after each statement, the encoder's
\* address counter equals the number of words in the output array; so the
\* address a branch offset is computed from is the output index of the branch
\* word, and the word at that index leads to the label's address.
C24_AddressIsSize ==
    /\ (pc = "pass2" \/ emitAt # <<>>) => enc_currentAddress = Len(machineCode)
    /\ \A k \in 1..Len(emitAt) : emitAt[k].address = emitAt[k].index
    /\ \A k \in 1..Len(ast) :
          (AfterEncode(k) /\ IsBranchTo(k) /\ pc = "pass2") =>
              /\ Len(machineCode) = emitAt[k].index + 1
              /\ TargetAt(machineCode[emitAt[k].index + 1], emitAt[k].index)
                     = labels[ast[k].operand1]

\* a branch has been encoded behind earlier words and the counter stands one
\* past the index of the branch word
C24_Witness ==
    \E k \in 1..Len(ast) :
        /\ AfterEncode(k)
        /\ IsBranchTo(k)
        /\ pc = "pass2"
        /\ emitAt[k].index >= 1
        /\ enc_currentAddress = emitAt[k].index + 1
        /\ Len(machineCode) = enc_currentAddress

\* statement k is an instruction with a =label operand, expanded by
\* encodeRegImmOrReg (no descriptor of the table has the format LABEL_LOAD)
IsExpansion(k) ==
    /\ IsInstruction(k)
    /\ ast[k].isLabelImmediate
    /\ FormatOf(k) = "REG_IMM_OR_REG"

\* C25: when encoding a statement fails in the second pass, no word of that
\* statement has been appended: the output array and the address counter are
\* as they were before the statement. A =label expansion appends both of its
\* words or neither.
C25_FailureAppendsNothing ==
    \A k \in 1..Len(ast) :
        /\ FailedAt(k) => /\ Appended(k) = <<>>
                          /\ Len(machineCode) = emitAt[k].index
                          /\ enc_currentAddress = emitAt[k].address
        /\ (AfterEncode(k) /\ IsExpansion(k)) =>
              Len(Appended(k)) = (IF pc = "error" THEN 0 ELSE 2)

\* a =label instruction behind one word has failed on its symbol, and the
\* output array still holds that one word
C25_Witness ==
    \E k \in 2..Len(ast) :
        /\ FailedAt(k)
        /\ IsExpansion(k)
        /\ err.kind = "UnresolvableOperand"
        /\ emitAt[k].index = 1
        /\ machineCode = <<1>>
        /\ enc_currentAddress = 1

\* C26: the decoder inlined in writeMIF and disassembleInstruction agree: for
\* every word of the output array, at its address, they yield the same
\* mnemonic, the same register operands and the same immediate or branch
\* target.
C26_DecodersAgree ==
    \A i \in 1..Len(machineCode) :
        disassembleInstruction(machineCode[i], i - 1) = MifDecode(machineCode[i], i - 1)

====
